---- MODULE Spec2Model ----
(***************************************************************************)
(* Model of the Nyaa search extension (src/nyaa.js): the three public      *)
(* search modes single / batch / movie, the shared search primitive with   *)
(* its try/catch boundary, and the regex based RSS parser.                 *)
(*                                                                         *)
(* Text is modelled as a sequence of one-character strings, so that        *)
(* toLowerCase, includes, trim, parseInt, decodeHTML and                   *)
(* encodeURIComponent are computed character by character.  An <item>      *)
(* fragment is the sequence of its child elements; each element carries    *)
(* the tag name as written, whether its content is CDATA wrapped, and its  *)
(* raw content.  The feed body is the sequence of its <item> fragments     *)
(* (what itemRegex yields, in document order).  Bodies are the text        *)
(* response.text() delivers, which is well-formed Unicode: a lone          *)
(* surrogate, on which encodeURIComponent throws, cannot occur in them.    *)
(***************************************************************************)
EXTENDS Integers, Sequences, FiniteSets, TLC

VARIABLES
  pc,          \* position of the one call: idle, awaitFetch, awaitText, done
  op,          \* public operation invoked: none, single, batch, movie
  options,     \* the SearchRequest handed to the operation
  url,         \* URL handed to fetch (characters)
  fetchCount,  \* number of fetch(url) calls issued
  parseCount,  \* number of parseRSS invocations
  response,    \* outcome of the fetch: none, ok, notok, rejected
  body,        \* outcome of response.text(): none, read, failed
  xmlText,     \* body handed to parseRSS (sequence of item fragments)
  parsed,      \* what parseRSS returned
  searchOut,   \* what search returned to the public operation
  ret,         \* value the public operation returned
  raised,      \* TRUE when the public operation threw to its caller
  errors,      \* console.error calls, in order
  clock        \* Date.now()

vars == <<pc, op, options, url, fetchCount, parseCount, response, body, xmlText,
          parsed, searchOut, ret, raised, errors, clock>>

\* JavaScript values that are not text: undefined, numbers (NaN among them),
\* arrays that may be undefined, and Date objects (Invalid Date among them).
\* Text is a sequence of characters
Undefined == [t |-> "undefined"]
NaN == [t |-> "NaN"]
Num(n) == [t |-> "number", v |-> n]
Arr(a) == [t |-> "array", items |-> a]
DateOf(n) == [t |-> "date", time |-> n]
InvalidDate == [t |-> "Invalid Date"]

\* ToBoolean of a number or undefined
Truthy(x) == x.t = "number" /\ x.v # 0

\* ------------------------------------------------------------------ bounds
\* largest number of <item> fragments in a feed body
MaxItems == 2

\* ------------------------------------------------------------ text helpers
UpperChars == <<"A","B","C","D","E","F","G","H","I","J","K","L","M",
                "N","O","P","Q","R","S","T","U","V","W","X","Y","Z">>
LowerChars == <<"a","b","c","d","e","f","g","h","i","j","k","l","m",
                "n","o","p","q","r","s","t","u","v","w","x","y","z">>
DigitChars == <<"0","1","2","3","4","5","6","7","8","9">>

UpperSet == {UpperChars[i] : i \in DOMAIN UpperChars}
LowerSet == {LowerChars[i] : i \in DOMAIN LowerChars}
DigitSet == {DigitChars[i] : i \in DOMAIN DigitChars}

IsUpper(c) == c \in UpperSet
IsLowerLetter(c) == c \in LowerSet
IsDigit(c) == c \in DigitSet
DigitValOf == [c \in DigitSet |-> (CHOOSE i \in DOMAIN DigitChars : DigitChars[i] = c) - 1]
DigitVal(c) == DigitValOf[c]
IsSpace(c) == c \in {" ", "\n", "\t"}

\* String.prototype.toLowerCase, one character
LowerOf == [c \in UpperSet |-> LowerChars[CHOOSE i \in DOMAIN UpperChars : UpperChars[i] = c]]
LowerChar(c) == IF IsUpper(c) THEN LowerOf[c] ELSE c

ToLowerCase(s) == [i \in DOMAIN s |-> LowerChar(s[i])]

\* String.prototype.includes
Includes(s, sub) ==
  \E i \in 0..(Len(s) - Len(sub)) : SubSeq(s, i + 1, i + Len(sub)) = sub

\* String.prototype.trim
RECURSIVE TrimStart(_)
TrimStart(s) ==
  IF s # <<>> /\ IsSpace(Head(s)) THEN TrimStart(Tail(s)) ELSE s

RECURSIVE TrimEnd(_)
TrimEnd(s) ==
  IF s # <<>> /\ IsSpace(s[Len(s)]) THEN TrimEnd(SubSeq(s, 1, Len(s) - 1)) ELSE s

Trim(s) == TrimEnd(TrimStart(s))

\* Number.prototype.toString for a non-negative integer
RECURSIVE NumToString(_)
NumToString(n) ==
  IF n < 10 THEN <<DigitChars[n + 1]>>
  ELSE NumToString(n \div 10) \o <<DigitChars[(n % 10) + 1]>>

\* Array.prototype.join(' ')
RECURSIVE Join(_)
Join(terms) ==
  IF terms = <<>> THEN <<>>
  ELSE IF Len(terms) = 1 THEN Head(terms)
  ELSE Head(terms) \o <<" ">> \o Join(Tail(terms))

\* encodeURIComponent: unreserved characters pass, the others become the
\* percent escape of their (single byte) code
Unreserved(c) ==
  IsUpper(c) \/ IsLowerLetter(c) \/ IsDigit(c) \/ c \in {"-", "_", ".", "!", "~", "*", "'", "(", ")"}

PercentCode(c) ==
  CASE c = " " -> <<"%","2","0">>
    [] c = "&" -> <<"%","2","6">>
    [] c = ";" -> <<"%","3","B">>
    [] c = "#" -> <<"%","2","3">>
    [] c = ":" -> <<"%","3","A">>
    [] c = "/" -> <<"%","2","F">>
    [] c = "?" -> <<"%","3","F">>
    [] c = "=" -> <<"%","3","D">>
    [] c = "[" -> <<"%","5","B">>
    [] c = "]" -> <<"%","5","D">>
    [] c = "<" -> <<"%","3","C">>
    [] c = ">" -> <<"%","3","E">>
    [] c = "\n" -> <<"%","0","A">>
    [] c = "\t" -> <<"%","0","9">>
    [] c = "CHK" -> <<"%","E","2","%","9","C","%","9","3">>

RECURSIVE EncodeURIComponent(_)
EncodeURIComponent(s) ==
  IF s = <<>> THEN <<>>
  ELSE (IF Unreserved(Head(s)) THEN <<Head(s)>> ELSE PercentCode(Head(s)))
       \o EncodeURIComponent(Tail(s))

\* ------------------------------------------------------- text utilities
\* formatEpisode: leading zero below 10, toString otherwise
formatEpisode(episode) ==
  IF episode < 10 THEN <<"0">> \o NumToString(episode) ELSE NumToString(episode)

batchKeywords ==
  << <<"b","a","t","c","h">>,
     <<"c","o","m","p","l","e","t","e">>,
     <<"v","o","l">>,
     <<"0","1","-">>,
     <<"1","-">>,
     <<"s","e","a","s","o","n">>,
     <<"s","1">>,
     <<"s","2">>,
     <<"s","3">>,
     <<"s","4">> >>

\* isBatch: the lowercased title includes one of the keywords
isBatch(title) ==
  LET titleLower == ToLowerCase(title)
  IN \E k \in DOMAIN batchKeywords : Includes(titleLower, batchKeywords[k])

\* the entities table of decodeHTML (keys are matched exactly)
EntityKeys ==
  << <<"&","a","m","p",";">>,
     <<"&","l","t",";">>,
     <<"&","g","t",";">>,
     <<"&","q","u","o","t",";">>,
     <<"&","#","3","9",";">>,
     <<"&","a","p","o","s",";">> >>
EntityVals == << "&", "<", ">", "\"", "'", "'" >>

\* the character class [#a-z0-9] under the i flag
IsEntityChar(c) == c = "#" \/ IsLowerLetter(c) \/ IsUpper(c) \/ IsDigit(c)

\* length of the longest prefix of s made of entity characters
RECURSIVE EntityRun(_)
EntityRun(s) ==
  IF s # <<>> /\ IsEntityChar(Head(s)) THEN 1 + EntityRun(Tail(s)) ELSE 0

\* the replacer of decodeHTML: entities[match] || match
ReplaceEntity(match) ==
  IF \E k \in DOMAIN EntityKeys : EntityKeys[k] = match
    THEN <<EntityVals[CHOOSE k \in DOMAIN EntityKeys : EntityKeys[k] = match]>>
    ELSE match

\* decodeHTML: text.replace(/&[#a-z0-9]+;/gi, replacer), scanning left to right
RECURSIVE decodeHTML(_)
decodeHTML(text) ==
  IF text = <<>> THEN <<>>
  ELSE IF Head(text) = "&"
    THEN LET n == EntityRun(Tail(text))
         IN IF n >= 1 /\ Len(text) >= n + 2 /\ text[n + 2] = ";"
              THEN ReplaceEntity(SubSeq(text, 1, n + 2))
                   \o decodeHTML(SubSeq(text, n + 3, Len(text)))
              ELSE <<"&">> \o decodeHTML(Tail(text))
    ELSE <<Head(text)>> \o decodeHTML(Tail(text))

\* the tag names parseRSS asks for
TagTitle == "title"
TagLink == "link"
TagPubDate == "pubDate"
TagSeeders == "nyaa:seeders"
TagLeechers == "nyaa:leechers"
TagDownloads == "nyaa:downloads"
TagSize == "nyaa:size"
TagInfoHash == "nyaa:infoHash"
TagCategory == "nyaa:category"

\* value of a digit in the given radix, -1 when c is not such a digit
RadixVal(c, radix) ==
  LET v == IF IsDigit(c) THEN DigitVal(c)
           ELSE IF c \in {"a","A"} THEN 10
           ELSE IF c \in {"b","B"} THEN 11
           ELSE IF c \in {"c","C"} THEN 12
           ELSE IF c \in {"d","D"} THEN 13
           ELSE IF c \in {"e","E"} THEN 14
           ELSE IF c \in {"f","F"} THEN 15
           ELSE -1
  IN IF v < radix THEN v ELSE -1

\* number of leading digits of s in the radix
RECURSIVE DigitRun(_, _)
DigitRun(s, radix) ==
  IF s # <<>> /\ RadixVal(Head(s), radix) >= 0 THEN 1 + DigitRun(Tail(s), radix) ELSE 0

\* value of the digit string s (all digits of the radix), most significant first
RECURSIVE DigitsValue(_, _)
DigitsValue(s, radix) ==
  IF s = <<>> THEN 0
  ELSE DigitsValue(SubSeq(s, 1, Len(s) - 1), radix) * radix + RadixVal(s[Len(s)], radix)

\* parseInt(string) without radix: leading white space, a sign, 0x / 0X for
\* radix 16, then the longest run of digits; NaN when that run is empty
parseInt(str) ==
  LET s0 == TrimStart(str)
      neg == s0 # <<>> /\ Head(s0) = "-"
      s1 == IF s0 # <<>> /\ Head(s0) \in {"-", "+"} THEN Tail(s0) ELSE s0
      hex == Len(s1) >= 2 /\ s1[1] = "0" /\ s1[2] \in {"x", "X"}
      s2 == IF hex THEN SubSeq(s1, 3, Len(s1)) ELSE s1
      radix == IF hex THEN 16 ELSE 10
      n == DigitRun(s2, radix)
      v == DigitsValue(SubSeq(s2, 1, n), radix)
  IN IF n = 0 THEN NaN ELSE IF neg THEN Num(0 - v) ELSE Num(v)

\* Date.parse(string): the date-time string formats are represented by the
\* four digit year form; the time value is counted in the clock's unit.
\* Every other text yields NaN
DateParse(str) ==
  IF Len(str) = 4 /\ \A i \in DOMAIN str : IsDigit(str[i])
    THEN Num(DigitsValue(str, 10))
    ELSE NaN

\* new Date(string): Invalid Date when the string does not parse
NewDateFromString(str) ==
  LET t == DateParse(str) IN IF t = NaN THEN InvalidDate ELSE DateOf(t.v)

\* new Date(number)
NewDateFromNumber(n) == DateOf(n)

\* a > b for a number a that may be NaN (NaN compares false)
GreaterThan(a, b) == a # NaN /\ a.v > b

\* x || y on strings: the empty string is falsy
OrElse(x, y) == IF x = <<>> THEN y ELSE x

MagnetPrefix == <<"m","a","g","n","e","t",":","?","x","t","=","u","r","n",":","b","t","i","h",":">>
MagnetDn == <<"&","d","n","=">>
Trusted == <<"t","r","u","s","t","e","d">>
\* ---------------------------------------------------------- feed parser
\* the match of extractTag's regex on one element: group 1 is the CDATA
\* alternative, group 2 the plain one; (match[1] || match[2] || '').trim()
ElementContent(el) ==
  LET m1 == IF el.cdata THEN el.text ELSE <<>>
      m2 == IF el.cdata THEN <<>> ELSE el.text
  IN Trim(OrElse(m1, OrElse(m2, <<>>)))

\* tag names are whole strings; their case folding is tabulated for the
\* spellings that occur
TagLowerCase(tag) ==
  CASE tag = "TITLE" -> "title"
    [] tag = "pubDate" -> "pubdate"
    [] tag = "nyaa:infoHash" -> "nyaa:infohash"
    [] OTHER -> tag

\* the tag name of an element against the one asked for, under the i flag
TagMatches(tag, tagName) == TagLowerCase(tag) = TagLowerCase(tagName)

\* extractTag: the first element of the fragment whose tag matches tagName
\* (i flag: case-insensitively); the empty string when no element matches.
\* The fragment is given element by element, so the regex is applied to
\* well-nested children only: an opening tag that merely starts with tagName
\* (which `<tag[^>]*>` would accept) does not occur in the fragments modelled
extractTag(xml, tagName) ==
  LET hits == {i \in DOMAIN xml : TagMatches(xml[i].tag, tagName)}
  IN IF hits = {} THEN <<>>
     ELSE ElementContent(xml[CHOOSE i \in hits : \A j \in hits : i <= j])

\* type: undefined, and the type batch() attaches
NoType == "undefined"
BatchType == "batch"

\* the synthesized magnet link of parseRSS
MagnetLink(infoHash, title) ==
  MagnetPrefix \o infoHash \o MagnetDn \o EncodeURIComponent(title)

\* parseInt(this.extractTag(itemXml, tag) || '0')
NumericField(itemXml, tagName) ==
  parseInt(OrElse(extractTag(itemXml, tagName), <<"0">>))

\* new Date(pubDate || Date.now())
ItemDate(pubDate, now) ==
  IF pubDate = <<>> THEN NewDateFromNumber(now) ELSE NewDateFromString(pubDate)

\* isTrusted of parseRSS
IsTrusted(category, title, seeders) ==
  \/ Includes(category, Trusted)
  \/ Includes(title, <<"CHK">>)
  \/ GreaterThan(seeders, 50)

\* if (!title || !infoHash) continue;
IsDiscarded(title, infoHash) == title = <<>> \/ infoHash = <<>>

\* variant: the magnet link built from the lowercased info hash
RecordLinkLoweredHash(link, infoHash, title) ==
  OrElse(link, MagnetLink(ToLowerCase(infoHash), title))

\* link: link || `magnet:?xt=urn:btih:${infoHash}&dn=${encodeURIComponent(title)}`
RecordLink(link, infoHash, title) == OrElse(link, MagnetLink(infoHash, title))

\* variant: the info hash stored as extracted
RecordHashRaw(infoHash) == infoHash

\* hash: infoHash.toLowerCase()
RecordHash(infoHash) == ToLowerCase(infoHash)

\* the body of parseRSS's loop for one <item> fragment: the records it pushes
\* (none when the fragment is discarded)
ParseItem(itemXml, now) ==
  LET title == extractTag(itemXml, TagTitle)
      link == extractTag(itemXml, TagLink)
      pubDate == extractTag(itemXml, TagPubDate)
      seeders == NumericField(itemXml, TagSeeders)
      leechers == NumericField(itemXml, TagLeechers)
      downloads == NumericField(itemXml, TagDownloads)
      size == NumericField(itemXml, TagSize)
      infoHash == extractTag(itemXml, TagInfoHash)
      category == extractTag(itemXml, TagCategory)
  IN IF IsDiscarded(title, infoHash) THEN <<>>
     ELSE << [ title |-> decodeHTML(title),
               link |-> RecordLink(link, infoHash, title),
               seeders |-> seeders,
               leechers |-> leechers,
               downloads |-> downloads,
               hash |-> RecordHash(infoHash),
               size |-> size,
               verified |-> IsTrusted(category, title, seeders),
               date |-> ItemDate(pubDate, now),
               type |-> NoType ] >>

\* parseRSS: the fragments in document order, each through the loop body
RECURSIVE parseRSS(_, _)

\* variant: a parser that stops at the first discarded fragment
parseRSSBreak(text, now) ==
  IF text = <<>> \/ ParseItem(Head(text), now) = <<>> THEN <<>>
  ELSE ParseItem(Head(text), now) \o parseRSS(Tail(text), now)

parseRSS(text, now) ==
  IF text = <<>> THEN <<>>
  ELSE ParseItem(Head(text), now) \o parseRSS(Tail(text), now)

\* ----------------------------------------------------- search orchestrator
\* titles[0]; undefined joins as the empty string
FirstTitle(titles) == IF titles = <<>> THEN <<>> ELSE titles[1]

\* resolution + 'p', pushed when resolution is truthy
ResolutionTerm(resolution) ==
  IF Truthy(resolution) THEN << NumToString(resolution.v) \o <<"p">> >> ELSE <<>>

singleQuery(o) ==
  Join(<<FirstTitle(o.titles), formatEpisode(o.episode.v)>> \o ResolutionTerm(o.resolution))

batchQuery(o) ==
  Join(<<FirstTitle(o.titles)>> \o ResolutionTerm(o.resolution))

movieQuery(o) ==
  Join(<<FirstTitle(o.titles), <<"m","o","v","i","e">>>> \o ResolutionTerm(o.resolution))

baseUrl == <<"h","t","t","p","s",":","/","/","n","y","a","a",".","s","i">>
UrlHead == <<"/","?","p","a","g","e","=","r","s","s","&","q","=">>
UrlTail == <<"&","c","=","1","_","2","&","f","=","0">>

SearchUrl(query) == baseUrl \o UrlHead \o EncodeURIComponent(query) \o UrlTail

\* the exclusions parameter of search, [] by default
ExclusionsOf(o) == IF o.exclusions = Undefined THEN <<>> ELSE o.exclusions.items

\* variant: the exclusions compared case-sensitively
NotExcludedCaseSensitive(result, exclusions) ==
  ~ \E e \in DOMAIN exclusions : Includes(result.title, exclusions[e])

\* the predicate of the exclusions filter of search
NotExcluded(result, exclusions) ==
  LET titleLower == ToLowerCase(result.title)
  IN ~ \E e \in DOMAIN exclusions : Includes(titleLower, ToLowerCase(exclusions[e]))

ApplyExclusions(results, exclusions) ==
  SelectSeq(results, LAMBDA r : NotExcluded(r, exclusions))

\* results.filter(r => !this.isBatch(r.title))
singleFilter(results) == SelectSeq(results, LAMBDA r : ~ isBatch(r.title))

\* variant: the batch records returned without their type
batchFilterNoType(results) == SelectSeq(results, LAMBDA r : isBatch(r.title))

\* results.filter(r => this.isBatch(r.title)).map(r => ({ ...r, type: 'batch' }))
batchFilter(results) ==
  LET kept == SelectSeq(results, LAMBDA r : isBatch(r.title))
  IN [i \in DOMAIN kept |-> [kept[i] EXCEPT !.type = BatchType]]

\* movie returns what search returned
movieFilter(results) == results

ModeFilter(mode, results) ==
  CASE mode = "single" -> singleFilter(results)
    [] mode = "batch" -> batchFilter(results)
    [] mode = "movie" -> movieFilter(results)
\* ---------------------------------------------------------------- inputs
El(tag, cdata, text) == [tag |-> tag, cdata |-> cdata, text |-> text]

\* <title> children: none, blank, plain, CDATA wrapped under an upper case
\* tag name, with an entity
TitleEls ==
  { <<>>,
    <<El(TagTitle, FALSE, <<" ">>)>>,
    <<El(TagTitle, FALSE, <<"E","p"," ","0","5">>)>>,
    <<El("TITLE", TRUE, <<"S","1"," ","O","V","A">>)>>,
    <<El(TagTitle, FALSE, <<"A","&","a","m","p",";","B">>)>> }

\* <nyaa:infoHash> children: none, empty, mixed case
HashEls ==
  { <<>>,
    <<El(TagInfoHash, FALSE, <<>>)>>,
    <<El(TagInfoHash, FALSE, <<"A","b","C","1">>)>> }

\* the four numeric children: numeric, missing, empty, non-numeric, signed,
\* digits followed by text
NumEls ==
  { <<El(TagSeeders, FALSE, <<"1","0">>), El(TagLeechers, FALSE, <<"2">>),
      El(TagDownloads, FALSE, <<"3">>), El(TagSize, FALSE, <<"4">>)>>,
    <<El(TagSeeders, FALSE, <<"a","b","c">>), El(TagDownloads, FALSE, <<>>),
      El(TagSize, FALSE, <<"7","x">>)>>,
    <<El(TagSeeders, FALSE, <<"6","0">>), El(TagLeechers, FALSE, <<"-","5">>),
      El(TagDownloads, TRUE, <<" ","1"," ">>), El(TagSize, FALSE, <<"a","b","c">>)>>,
    <<El(TagSeeders, FALSE, <<"-","5">>), El(TagLeechers, FALSE, <<"a","b","c">>),
      El(TagDownloads, FALSE, <<"a","b","c">>), El(TagSize, FALSE, <<"-","5">>)>> }

\* <link> children: none, empty, a link
LinkEls ==
  { <<>>,
    <<El(TagLink, FALSE, <<>>)>>,
    <<El(TagLink, FALSE, <<"h",":","/","x">>)>> }

\* <pubDate> children: none, a date, text that is no date
DateEls ==
  { <<>>,
    <<El(TagPubDate, FALSE, <<"2","0","2","4">>)>>,
    <<El(TagPubDate, FALSE, <<"z","z">>)>> }

EpTitleEl == <<El(TagTitle, FALSE, <<"E","p"," ","0","5">>)>>
VolTitleEl == <<El(TagTitle, FALSE, <<"V","o","l"," ","1","-","3"," ","o","v","a">>)>>
MixedHashEl == <<El(TagInfoHash, FALSE, <<"A","b","C","1">>)>>
UpperHashEl == <<El(TagInfoHash, FALSE, <<"A","B","C","D","E","F","1","2","3">>)>>
TrustedTailEls == <<El(TagInfoHash, FALSE, <<"f","f">>), El(TagCategory, FALSE, Trusted)>>

\* the <item> fragments feeds are made of: every title with a hash, a title
\* with every hash, every numeric combination, and the link and pubDate forms
Items ==
  { t \o MixedHashEl : t \in TitleEls }
  \cup { EpTitleEl \o h : h \in HashEls }
  \cup { EpTitleEl \o n \o UpperHashEl : n \in NumEls }
  \cup { VolTitleEl \o ld[1] \o ld[2] \o TrustedTailEls :
         ld \in { p \in LinkEls \X DateEls : p[1] = <<>> \/ p[2] = <<>> } }

\* the feed bodies response.text() may deliver
Feeds == UNION { [1..n -> Items] : n \in 0..MaxItems }

ShowTitle == <<"S","h","o","w">>

\* the SearchRequest objects handed to the public operations
Requests ==
  { [titles |-> <<ShowTitle>>, episode |-> er[1], resolution |-> er[2],
     exclusions |-> Arr(<<>>)] :
      er \in { <<Undefined, Undefined>>, <<Undefined, Num(1080)>>, <<Num(0), Undefined>>,
               <<Num(5), Undefined>>, <<Num(12), Num(1080)>> } }
  \cup { [titles |-> <<ShowTitle>>, episode |-> Num(5), resolution |-> Undefined,
          exclusions |-> x] :
      x \in { Undefined, Arr(<< <<"O","V","A">> >>), Arr(<< <<"b">>, <<"0","5">> >>) } }
  \cup { [titles |-> <<>>, episode |-> Num(5), resolution |-> Num(1080),
          exclusions |-> Arr(<< <<"O","V","A">> >>)] }

NoRequest == [titles |-> <<>>, episode |-> Undefined, resolution |-> Undefined,
              exclusions |-> Undefined]

\* the times the call may start at
StartTimes == {3000}

\* ------------------------------------------------------------ state machine
Init ==
  /\ pc = "idle"
  /\ op = "none"
  /\ options = NoRequest
  /\ url = <<>>
  /\ fetchCount = 0
  /\ parseCount = 0
  /\ response = "none"
  /\ body = "none"
  /\ xmlText = <<>>
  /\ parsed = <<>>
  /\ searchOut = <<>>
  /\ ret = <<>>
  /\ raised = FALSE
  /\ errors = <<>>
  /\ clock \in StartTimes

\* search up to its first await: the URL is built and fetch(url) is called
StartSearch(query) ==
  /\ url' = SearchUrl(query)
  /\ fetchCount' = fetchCount + 1
  /\ pc' = "awaitFetch"
  /\ UNCHANGED <<parseCount, response, body, xmlText, parsed, searchOut, ret,
                 raised, errors>>

\* the public operation returns `results` to its caller
Return(results) ==
  /\ ret' = results
  /\ raised' = FALSE
  /\ pc' = "done"

\* variant: the catch block rethrows to the caller
SearchCatchRethrow(what) ==
  /\ errors' = Append(errors, what)
  /\ searchOut' = <<>>
  /\ ret' = <<>>
  /\ raised' = TRUE
  /\ pc' = "done"

\* the catch block of search: console.error, return []; the public operation
\* then filters the empty array and returns
SearchCatch(what) ==
  /\ errors' = Append(errors, what)
  /\ searchOut' = <<>>
  /\ Return(ModeFilter(op, <<>>))

\* variant: single without the early return on a missing episode
singleNoEarlyReturn(o) ==
  /\ pc = "idle"
  /\ op' = "single"
  /\ options' = o
  /\ clock' = clock + 1
  /\ StartSearch(batchQuery(o))

\* single(options), up to its return or to the await of fetch
single(o) ==
  /\ pc = "idle"
  /\ op' = "single"
  /\ options' = o
  /\ clock' = clock + 1
  /\ IF ~ Truthy(o.episode)
       THEN /\ Return(<<>>)
            /\ UNCHANGED <<url, fetchCount, parseCount, response, body, xmlText,
                           parsed, searchOut, errors>>
       ELSE StartSearch(singleQuery(o))

\* batch(options), up to the await of fetch
batch(o) ==
  /\ pc = "idle"
  /\ op' = "batch"
  /\ options' = o
  /\ clock' = clock + 1
  /\ StartSearch(batchQuery(o))

\* movie(options), up to the await of fetch
movie(o) ==
  /\ pc = "idle"
  /\ op' = "movie"
  /\ options' = o
  /\ clock' = clock + 1
  /\ StartSearch(movieQuery(o))

\* variant: the response status is not looked at
FetchFulfilledNoOkCheck(ok) ==
  /\ pc = "awaitFetch"
  /\ clock' = clock + 1
  /\ response' = IF ok THEN "ok" ELSE "notok"
  /\ pc' = "awaitText"
  /\ UNCHANGED <<op, options, url, fetchCount, parseCount, body, xmlText, parsed,
                 searchOut, ret, raised, errors>>

\* fetch resolves with a response; !response.ok throws into the catch block,
\* otherwise response.text() is called and awaited
FetchFulfilled(ok) ==
  /\ pc = "awaitFetch"
  /\ clock' = clock + 1
  /\ response' = IF ok THEN "ok" ELSE "notok"
  /\ IF ok
       THEN /\ pc' = "awaitText"
            /\ UNCHANGED <<searchOut, ret, raised, errors>>
       ELSE SearchCatch("HTTP error")
  /\ UNCHANGED <<op, options, url, fetchCount, parseCount, body, xmlText, parsed>>

\* fetch rejects (transport error): the catch block of search
FetchRejected ==
  /\ pc = "awaitFetch"
  /\ clock' = clock + 1
  /\ response' = "rejected"
  /\ SearchCatch("fetch failed")
  /\ UNCHANGED <<op, options, url, fetchCount, parseCount, body, xmlText, parsed>>

\* response.text() resolves: parseRSS, the exclusions filter, and the public
\* operation's own filter, up to its return
TextFulfilled(text) ==
  /\ pc = "awaitText"
  /\ clock' = clock + 1
  /\ body' = "read"
  /\ xmlText' = text
  /\ parseCount' = parseCount + 1
  /\ parsed' = parseRSS(text, clock')
  /\ searchOut' = ApplyExclusions(parsed', ExclusionsOf(options))
  /\ Return(ModeFilter(op, searchOut'))
  /\ UNCHANGED <<op, options, url, fetchCount, response, errors>>

\* response.text() rejects: the catch block of search
TextRejected ==
  /\ pc = "awaitText"
  /\ clock' = clock + 1
  /\ body' = "failed"
  /\ SearchCatch("body read failed")
  /\ UNCHANGED <<op, options, url, fetchCount, parseCount, response, xmlText, parsed>>

Next ==
  \/ \E o \in Requests : single(o)
  \/ \E o \in Requests : batch(o)
  \/ \E o \in Requests : movie(o)
  \/ \E ok \in BOOLEAN : FetchFulfilled(ok)
  \/ FetchRejected
  \/ \E text \in Feeds : TextFulfilled(text)
  \/ TextRejected

Spec == Init /\ [][Next]_vars
\* ------------------------------------------------------------ properties
\* the fragment has a non-empty title and a non-empty info hash
HasTitleAndHash(itemXml) ==
  extractTag(itemXml, TagTitle) # <<>> /\ extractTag(itemXml, TagInfoHash) # <<>>

\* the fragments of the body that have both, in document order
KeptItems(text) == SelectSeq(text, HasTitleAndHash)

Range(seq) == {seq[i] : i \in DOMAIN seq}

StartsWith(s, prefix) == Len(s) >= Len(prefix) /\ SubSeq(s, 1, Len(prefix)) = prefix

IsNonNegativeInteger(x) == x.t = "number" /\ x.v >= 0

HasDigit(s) == \E i \in DOMAIN s : IsDigit(s[i])

NumericTags ==
  { <<TagSeeders, "seeders">>, <<TagLeechers, "leechers">>,
    <<TagDownloads, "downloads">>, <<TagSize, "size">> }

FetchFailed == response \in {"notok", "rejected"}

\* C1: when single is called with episode absent, it returns the empty
\* sequence and no fetch is ever issued, whatever the other request fields are.
C1_NoEpisodeNoFetch ==
  (op = "single" /\ options.episode = Undefined) =>
     /\ pc = "done"
     /\ ret = <<>>
     /\ ~ raised
     /\ fetchCount = 0
     /\ response = "none"
     /\ url = <<>>

C1_Witness ==
  /\ op = "single"
  /\ options.episode = Undefined
  /\ options.resolution # Undefined
  /\ pc = "done"

\* C2: whatever the fetch does (success body, non-success status, rejected
\* fetch, failure while reading the body) the public operation returns a
\* sequence and never raises; after a rejected fetch or a non-success status
\* the returned sequence is empty.
C2_NeverRaises ==
  /\ ~ raised
  /\ (FetchFailed \/ body # "none") => pc = "done"
  /\ pc = "done" => DOMAIN ret = 1..Len(ret)
  /\ FetchFailed => ret = <<>>
  /\ body = "failed" => ret = <<>>

C2_Witness ==
  /\ pc = "done"
  /\ op = "batch"
  /\ response = "rejected"
  /\ errors # <<>>

\* C3: every record the parser emits has seeders, leechers, downloads and size
\* that are non-negative integers, 0 when the tag is missing or its content
\* holds no number.
C3_NumericFieldsNonNegative ==
  body = "read" =>
    LET kept == KeptItems(xmlText)
    IN /\ Len(parsed) = Len(kept)
       /\ \A i \in DOMAIN parsed : \A tf \in NumericTags :
            LET raw == extractTag(kept[i], tf[1])
                val == parsed[i][tf[2]]
            IN /\ IsNonNegativeInteger(val)
               /\ ~ HasDigit(raw) => val = Num(0)

\* C4: every record the parser emits has a non-empty title and a non-empty
\* hash, and the hash holds no upper case character.
C4_TitleAndLowercaseHash ==
  \A r \in Range(parsed) \cup Range(searchOut) \cup Range(ret) :
    /\ r.title # <<>>
    /\ r.hash # <<>>
    /\ \A i \in DOMAIN r.hash : ~ IsUpper(r.hash[i])

C4_Witness ==
  /\ pc = "done"
  /\ \E i \in DOMAIN xmlText :
       extractTag(xmlText[i], TagInfoHash) = <<"A","b","C","1">>
  /\ \E r \in Range(ret) : r.hash = <<"a","b","c","1">>

\* C5: the parser emits exactly one record for each fragment that has a
\* non-empty title and a non-empty info hash, nothing for the others, in
\* document order; a malformed fragment neither drops later fragments nor
\* fails the parse.
C5_OneRecordPerWellFormedItem ==
  body = "read" =>
    LET kept == KeptItems(xmlText)
    IN /\ Len(parsed) = Len(kept)
       /\ \A i \in DOMAIN parsed :
            /\ parsed[i].title = decodeHTML(extractTag(kept[i], TagTitle))
            /\ ToLowerCase(parsed[i].hash) = ToLowerCase(extractTag(kept[i], TagInfoHash))
       /\ errors = <<>>
       /\ pc = "done"

C5_Witness ==
  /\ body = "read"
  /\ Len(xmlText) = 2
  /\ ~ HasTitleAndHash(xmlText[1])
  /\ HasTitleAndHash(xmlText[2])
  /\ Len(parsed) = 1

\* C6 as stated: a record search emits for an item without link has a
\* synthesized magnet link that contains the record's (lowercased) hash; with
\* a non-empty link the record's link is the extracted link.
C6_MagnetContainsHash ==
  body = "read" =>
    LET kept == KeptItems(xmlText)
    IN /\ Len(parsed) = Len(kept)
       /\ Range(searchOut) \subseteq Range(parsed)
       /\ \A i \in DOMAIN parsed :
            parsed[i] \in Range(searchOut) =>
              LET link == extractTag(kept[i], TagLink)
              IN IF link = <<>>
                   THEN /\ StartsWith(parsed[i].link, MagnetPrefix)
                        /\ Includes(parsed[i].link, parsed[i].hash)
                   ELSE parsed[i].link = link

\* C6 amended: the synthesized magnet link holds the info hash as extracted
\* (not lowercased); the record's hash is that info hash lowercased, so the
\* link contains the hash up to letter case.
C6_MagnetContainsRawInfoHash ==
  body = "read" =>
    LET kept == KeptItems(xmlText)
    IN /\ Len(parsed) = Len(kept)
       /\ Range(searchOut) \subseteq Range(parsed)
       /\ \A i \in DOMAIN parsed :
            parsed[i] \in Range(searchOut) =>
              LET link == extractTag(kept[i], TagLink)
                  infoHash == extractTag(kept[i], TagInfoHash)
              IN IF link = <<>>
                   THEN /\ StartsWith(parsed[i].link, MagnetPrefix \o infoHash \o MagnetDn)
                        /\ parsed[i].hash = ToLowerCase(infoHash)
                        /\ Includes(ToLowerCase(parsed[i].link), parsed[i].hash)
                   ELSE parsed[i].link = link

C6_Witness ==
  /\ pc = "done"
  /\ \E r \in Range(searchOut) :
       /\ r.hash = <<"a","b","c","d","e","f","1","2","3">>
       /\ StartsWith(r.link, MagnetPrefix)
       /\ Includes(r.link, <<"A","B","C","D","E","F","1","2","3">>)
       /\ ~ Includes(r.link, r.hash)
  /\ \E r \in Range(searchOut) : ~ StartsWith(r.link, MagnetPrefix)

\* s contains sub, letter case ignored
ContainsIgnoringCase(s, sub) ==
  \E i \in 0..(Len(s) - Len(sub)) :
    \A k \in 1..Len(sub) : LowerChar(s[i + k]) = LowerChar(sub[k])

IsExcluded(r) ==
  \E x \in Range(ExclusionsOf(options)) : ContainsIgnoringCase(r.title, x)

\* C7: search returns exactly the parsed records whose title contains, case
\* ignored, none of the exclusions; they keep their order and are unchanged.
C7_ExclusionFilter ==
  body = "read" =>
    searchOut = SelectSeq(parsed, LAMBDA r : ~ IsExcluded(r))

C7_Witness ==
  /\ pc = "done"
  /\ options.exclusions = Arr(<< <<"O","V","A">> >>)
  /\ Len(parsed) = 2
  /\ Len(searchOut) = 1
  /\ \E r \in Range(parsed) : Includes(r.title, <<"o","v","a">>)

\* C8: batch returns exactly the search results whose title is a batch title,
\* as copies with type batch (the search results keep their unset type);
\* single returns exactly the others, type unset, in the original order.
C8_ModeFilters ==
  (pc = "done" /\ body = "read") =>
    /\ \A r \in Range(searchOut) : r.type = NoType
    /\ op = "batch" =>
         /\ [i \in DOMAIN ret |-> [ret[i] EXCEPT !.type = NoType]]
              = SelectSeq(searchOut, LAMBDA r : isBatch(r.title))
         /\ \A r \in Range(ret) : r.type = BatchType
    /\ op = "single" =>
         ret = SelectSeq(searchOut, LAMBDA r : ~ isBatch(r.title))
    /\ Len(singleFilter(searchOut)) + Len(batchFilter(searchOut)) = Len(searchOut)
    /\ \A r \in Range(searchOut) :
         (r \in Range(singleFilter(searchOut)))
           # ([r EXCEPT !.type = BatchType] \in Range(batchFilter(searchOut)))

C8_Witness ==
  /\ pc = "done"
  /\ op = "batch"
  /\ Len(searchOut) = 2
  /\ Len(ret) = 1
  /\ ret[1] = [searchOut[2] EXCEPT !.type = BatchType]

\* C9: a record's date is the parsed pubDate when pubDate is present and
\* parses, the time of the parse when pubDate is absent or does not parse, and
\* never an invalid date.
C9_DateFallsBackToNow ==
  body = "read" =>
    LET kept == KeptItems(xmlText)
    IN /\ Len(parsed) = Len(kept)
       /\ \A i \in DOMAIN parsed :
            LET pubDate == extractTag(kept[i], TagPubDate)
            IN /\ parsed[i].date # InvalidDate
               /\ parsed[i].date =
                    IF pubDate # <<>> /\ DateParse(pubDate) # NaN
                      THEN DateOf(DateParse(pubDate).v)
                      ELSE DateOf(clock)

\* C10: a call issues at most one fetch; the body is parsed only after that
\* fetch succeeded; after a failed fetch there is no parse and no second fetch.
C10_OneFetchThenParse ==
  /\ fetchCount <= 1
  /\ parseCount <= 1
  /\ parseCount = 1 => (fetchCount = 1 /\ response = "ok" /\ body = "read")
  /\ FetchFailed => (fetchCount = 1 /\ parseCount = 0 /\ pc = "done" /\ body = "none")

C10_Witness ==
  /\ pc = "done"
  /\ response = "notok"
  /\ fetchCount = 1
  /\ parseCount = 0
====
